---- MODULE Spec2Model ----
(***************************************************************************)
(* GrainSegmentationService (src/src/grain_segmentation_service.cpp): the  *)
(* pipeline orchestrator.  One service instance, driven by a single        *)
(* caller thread: configuration setters between calls, and compute, which  *)
(* is followed through its collaborator calls one step at a time.          *)
(***************************************************************************)
EXTENDS Integers, Sequences, FiniteSets, TLC

(* ---------------------------- bounds ----------------------------------- *)
MaxAtoms == 2
MaxGrainId == 2

(* ----------------------- program constants ----------------------------- *)
\* _rmsd(0.10f), in hundredths
DefaultRMSD == 10
\* _minGrainAtomCount(100)
DefaultMinGrainAtomCount == 100

Modes == {"PTM", "CNA"}
RMSDs == {DefaultRMSD, 15}
MinGrainAtomCounts == {-1, DefaultMinGrainAtomCount}
\* the argument lists setParameters is called with
ParameterLists ==
    {<<TRUE, DefaultMinGrainAtomCount, TRUE, FALSE>>,
     <<FALSE, -1, FALSE, TRUE>>,
     <<TRUE, -1, FALSE, FALSE>>,
     <<FALSE, DefaultMinGrainAtomCount, TRUE, TRUE>>}

\* what a collaborator call can raise: an exception derived from
\* std::exception (with its what() message), or a value of any other type
Raisable == {[kind |-> "std", what |-> "bad input"],
             [kind |-> "other", what |-> ""]}
NoRaise == [kind |-> "none", what |-> ""]

Coords == {1}
Thresholds == {3}
Prefixes == {"", "out"}

RECURSIVE SeqsUpTo(_, _)
SeqsUpTo(S, n) ==
    IF n = 0 THEN {<<>>}
    ELSE LET shorter == SeqsUpTo(S, n - 1)
         IN  shorter \cup {Append(s, x) : s \in {t \in shorter : Len(t) = n - 1}, x \in S}

\* LammpsParser::Frame as compute reads it: natoms and the position list,
\* whose length need not equal natoms
Frames == [natoms : -1..MaxAtoms, positions : SeqsUpTo(Coords, MaxAtoms)]

(* ------------------------------ state ---------------------------------- *)
VARIABLES
    _rmsd, _identificationMode, _adoptOrphanAtoms, _minGrainAtomCount,
    _handleCoherentInterfaces, _outputBonds,
    pc, frame, outputFilename,
    ptmOrientation, correspondencesCode,
    engine1, engine2, grainIds, result, finalOutput,
    files, log, idArgs, stage1Args, stage2Args, outcome, raised

config == <<_rmsd, _identificationMode, _adoptOrphanAtoms, _minGrainAtomCount,
            _handleCoherentInterfaces, _outputBonds>>
call == <<frame, outputFilename, ptmOrientation, correspondencesCode,
          engine1, engine2, grainIds, result, finalOutput,
          files, log, idArgs, stage1Args, stage2Args, outcome, raised>>
vars == <<config, pc, call>>

NoCall == [called |-> FALSE]
NoResult == [none |-> TRUE]
NoFrame == [natoms |-> 0, positions |-> <<>>]

\* AnalysisResult::failure / AnalysisResult::success
AnalysisFailure(msg) == [success |-> FALSE, error |-> msg]
AnalysisSuccess == [success |-> TRUE]

Init ==
    /\ _rmsd = DefaultRMSD
    /\ _identificationMode = "PTM"
    /\ _adoptOrphanAtoms = TRUE
    /\ _minGrainAtomCount = DefaultMinGrainAtomCount
    /\ _handleCoherentInterfaces = TRUE
    /\ _outputBonds = FALSE
    /\ pc = "idle"
    /\ frame = NoFrame
    /\ outputFilename = ""
    /\ ptmOrientation = FALSE
    /\ correspondencesCode = FALSE
    /\ engine1 = NoCall
    /\ engine2 = NoCall
    /\ grainIds = <<>>
    /\ result = NoResult
    /\ finalOutput = <<>>
    /\ files = <<>>
    /\ log = <<>>
    /\ idArgs = NoCall
    /\ stage1Args = NoCall
    /\ stage2Args = NoCall
    /\ outcome = "none"
    /\ raised = NoRaise

(* ------------------------- configuration ------------------------------- *)
SetIdentificationMode(mode) ==
    /\ pc = "idle"
    /\ _identificationMode' = mode
    /\ UNCHANGED <<_rmsd, _adoptOrphanAtoms, _minGrainAtomCount,
                   _handleCoherentInterfaces, _outputBonds, pc, call>>

SetRMSD(r) ==
    /\ pc = "idle"
    /\ _rmsd' = r
    /\ UNCHANGED <<_identificationMode, _adoptOrphanAtoms, _minGrainAtomCount,
                   _handleCoherentInterfaces, _outputBonds, pc, call>>

SetParameters(adopt, minCount, coherent, bonds) ==
    /\ pc = "idle"
    /\ _adoptOrphanAtoms' = adopt
    /\ _minGrainAtomCount' = minCount
    /\ _handleCoherentInterfaces' = coherent
    /\ _outputBonds' = bonds
    /\ UNCHANGED <<_rmsd, _identificationMode, pc, call>>

(* ----------------------- leaving compute ------------------------------- *)
\* `return r;` from compute or performGrainSegmentation
Return(r) ==
    /\ result' = r
    /\ outcome' = "returned"
    /\ pc' = "done"
    /\ UNCHANGED raised

\* e leaves compute and reaches the caller
Escape(e) ==
    /\ raised' = e
    /\ outcome' = "thrown"
    /\ pc' = "done"
    /\ UNCHANGED result

\* the catch clause of performGrainSegmentation: `catch(const std::exception& e)`
\* handles what derives from std::exception; anything else keeps unwinding
\* through compute, which has no handler of its own
Catch(e) ==
    IF e.kind = "std"
    THEN /\ result' = AnalysisFailure("Grain segmentation failed: " \o e.what)
         /\ raised' = e
         /\ outcome' = "returned"
         /\ pc' = "done"
    ELSE Escape(e)

(* ----------------------------- compute --------------------------------- *)
InvalidAtomCountStrict(f) == f.natoms < 0

\* `if(frame.natoms <= 0)`
InvalidAtomCount(f) == f.natoms <= 0

Compute(f, out) ==
    /\ pc = "idle"
    /\ frame' = f
    /\ outputFilename' = out
    /\ IF InvalidAtomCount(f)
       THEN Return(AnalysisFailure("Invalid number of atoms"))
       ELSE /\ pc' = "createPositionProperty"
            /\ UNCHANGED <<result, outcome, raised>>
    /\ UNCHANGED <<config, ptmOrientation, correspondencesCode, engine1, engine2,
                   grainIds, finalOutput, files, log, idArgs, stage1Args,
                   stage2Args>>

\* FrameAdapter::createPositionProperty(frame): a buffer, null, or a raise
CreatePositionProperty(created, e) ==
    /\ pc = "createPositionProperty"
    /\ log' = Append(log, "createPositionProperty")
    /\ IF e # NoRaise
       THEN Escape(e)
       ELSE IF ~created
            THEN Return(AnalysisFailure("Failed to create position property"))
            ELSE /\ pc' = "identifyStructures"
                 /\ UNCHANGED <<result, outcome, raised>>
    /\ UNCHANGED <<config, frame, outputFilename, ptmOrientation,
                   correspondencesCode, engine1, engine2, grainIds, finalOutput,
                   files, idArgs, stage1Args, stage2Args>>

\* the StructureAnalysis is built from _identificationMode and _rmsd and
\* identifyStructures() runs; on return the context carries, or not, the
\* orientation and the correspondence-code buffers
IdentifyStructures(orient, corr, e) ==
    /\ pc = "identifyStructures"
    /\ idArgs' = [called |-> TRUE, mode |-> _identificationMode, rmsd |-> _rmsd]
    /\ IF e # NoRaise
       THEN /\ log' = Append(log, "identifyStructures")
            /\ Escape(e)
            /\ UNCHANGED <<ptmOrientation, correspondencesCode>>
       ELSE /\ log' = log \o <<"identifyStructures", "identifyStructures.ret">>
            /\ ptmOrientation' = orient
            /\ correspondencesCode' = corr
            /\ pc' = "checkOutputFilename"
            /\ UNCHANGED <<result, outcome, raised>>
    /\ UNCHANGED <<config, frame, outputFilename, engine1, engine2, grainIds,
                   finalOutput, files, stage1Args, stage2Args>>

WarnsInOtherModes == _identificationMode # "PTM"

\* `if(_identificationMode == StructureAnalysis::Mode::PTM)` around the warning
WarnsAboutDataExport == _identificationMode = "PTM"

\* the tail of compute: the output-name check and the spdlog::warn
CheckOutputFilename ==
    /\ pc = "checkOutputFilename"
    /\ IF outputFilename # ""
       THEN /\ log' = IF WarnsAboutDataExport
                      THEN Append(log, "warn") ELSE log
            /\ pc' = "performGrainSegmentation"
            /\ UNCHANGED <<result, outcome, raised>>
       ELSE /\ Return(AnalysisFailure("No output filename specified"))
            /\ UNCHANGED log
    /\ UNCHANGED <<config, frame, outputFilename, ptmOrientation,
                   correspondencesCode, engine1, engine2, grainIds, finalOutput,
                   files, idArgs, stage1Args, stage2Args>>

(* --------------------- performGrainSegmentation ------------------------ *)
\* outputFile + "_grains.msgpack" + ".json", outputFile + "_grains_meta.msgpack" + ".json"
msgpackPath == outputFilename \o "_grains.msgpack"
metaPath == outputFilename \o "_grains_meta.msgpack"

\* static_cast<size_t>(int): the 32-bit int sign-extended to 64 bits and read
\* as unsigned, kept as four 16-bit limbs, least significant first
SizeT(v) ==
    <<v % (2^16), (v \div (2^16)) % (2^16),
      IF v < 0 THEN 2^16 - 1 ELSE 0, IF v < 0 THEN 2^16 - 1 ELSE 0>>

OrientationDataBothMissing == ~ptmOrientation /\ ~correspondencesCode

\* `if(!ctx.ptmOrientation || !ctx.correspondencesCode)`
OrientationDataMissing == ~ptmOrientation \/ ~correspondencesCode

\* entry of performGrainSegmentation: the check of the context's buffers
PerformGrainSegmentation ==
    /\ pc = "performGrainSegmentation"
    /\ log' = Append(log, "performGrainSegmentation")
    /\ IF OrientationDataMissing
       THEN Return(AnalysisFailure(
                "Grain segmentation requires PTM mode with orientation output enabled."))
       ELSE /\ pc' = "copyBuffers"
            /\ UNCHANGED <<result, outcome, raised>>
    /\ UNCHANGED <<config, frame, outputFilename, ptmOrientation,
                   correspondencesCode, engine1, engine2, grainIds, finalOutput,
                   files, idArgs, stage1Args, stage2Args>>

\* positions, structures, orientations and correspondences are allocated
\* and filled from the frame and the context
CopyBuffers(e) ==
    /\ pc = "copyBuffers"
    /\ log' = Append(log, "copyBuffers")
    /\ IF e # NoRaise
       THEN Catch(e)
       ELSE /\ pc' = "engine1"
            /\ UNCHANGED <<result, outcome, raised>>
    /\ UNCHANGED <<config, frame, outputFilename, ptmOrientation,
                   correspondencesCode, engine1, engine2, grainIds, finalOutput,
                   files, idArgs, stage1Args, stage2Args>>

\* GrainSegmentationEngine1 is built and engine1->perform() runs
Engine1Perform(threshold, e) ==
    /\ pc = "engine1"
    /\ stage1Args' = [called |-> TRUE,
                      handleCoherentInterfaces |-> _handleCoherentInterfaces,
                      outputBonds |-> _outputBonds]
    /\ IF e # NoRaise
       THEN /\ log' = Append(log, "engine1")
            /\ Catch(e)
            /\ UNCHANGED engine1
       ELSE /\ log' = log \o <<"engine1", "engine1.ret">>
            /\ engine1' = [called |-> TRUE, suggestedMergingThreshold |-> threshold]
            /\ pc' = "engine2"
            /\ UNCHANGED <<result, outcome, raised>>
    /\ UNCHANGED <<config, frame, outputFilename, ptmOrientation,
                   correspondencesCode, engine2, grainIds, finalOutput, files,
                   idArgs, stage2Args>>

\* what stage 2 exposes for a per-atom grain-id buffer: one grain per
\* non-zero id, in increasing id order, with the number of its atoms
RECURSIVE GrainsOf(_, _)
GrainsOf(clusters, g) ==
    IF g > MaxGrainId THEN <<>>
    ELSE LET size == Cardinality({i \in DOMAIN clusters : clusters[i] = g})
         IN  (IF size > 0
              THEN <<[id |-> g, size |-> size, orientation |-> <<0, 0, 0, 1>>]>>
              ELSE <<>>)
             \o GrainsOf(clusters, g + 1)

\* GrainSegmentationEngine2 is built on engine1 and engine2.perform() runs
Engine2Perform(clusters, e) ==
    /\ pc = "engine2"
    /\ Len(clusters) = frame.natoms
    /\ stage2Args' = [called |-> TRUE,
                      engine1 |-> engine1,
                      adoptOrphanAtoms |-> _adoptOrphanAtoms,
                      minGrainAtomCount |-> SizeT(_minGrainAtomCount),
                      stopOnThreshold |-> TRUE]
    /\ IF e # NoRaise
       THEN /\ log' = Append(log, "engine2")
            /\ Catch(e)
            /\ UNCHANGED engine2
       ELSE /\ log' = log \o <<"engine2", "engine2.ret">>
            /\ engine2' = [called |-> TRUE,
                           atomClusters |-> clusters,
                           grains |-> GrainsOf(clusters, 1),
                           grainCount |-> Len(GrainsOf(clusters, 1))]
            /\ pc' = "readBack"
            /\ UNCHANGED <<result, outcome, raised>>
    /\ UNCHANGED <<config, frame, outputFilename, ptmOrientation,
                   correspondencesCode, engine1, grainIds, finalOutput, files,
                   idArgs, stage1Args>>

\* one entry of result["grains"]
GrainInfo(grain) ==
    [id |-> grain.id, size |-> grain.size,
     orientation |-> <<grain.orientation[1], grain.orientation[2],
                       grain.orientation[3], grain.orientation[4]>>]

MetadataFirst == "exportMeta"

\* what follows the assembly of the result: the inner try block
AfterAssembly == "exportAtoms"

\* grainIds is copied out of engine2.atomClusters() and the success result
\* is assembled from engine2 and engine1
ReadBack(e) ==
    /\ pc = "readBack"
    /\ IF e # NoRaise
       THEN /\ log' = Append(log, "readBack")
            /\ Catch(e)
            /\ UNCHANGED grainIds
       ELSE /\ log' = log \o <<"readBack", "assembled">>
            /\ grainIds' = [i \in 1..frame.natoms |-> engine2.atomClusters[i]]
            /\ result' = AnalysisSuccess @@
                          [grain_count |-> engine2.grainCount,
                           merging_threshold |-> engine1.suggestedMergingThreshold,
                           grains |-> [k \in DOMAIN engine2.grains |->
                                          GrainInfo(engine2.grains[k])]]
            /\ pc' = AfterAssembly
            /\ UNCHANGED <<outcome, raised>>
    /\ UNCHANGED <<config, frame, outputFilename, ptmOrientation,
                   correspondencesCode, engine1, engine2, finalOutput, files,
                   idArgs, stage1Args, stage2Args>>

(* ------------------------------ export --------------------------------- *)
\* std::to_string(int)
Digit(d) ==
    CASE d = 0 -> "0" [] d = 1 -> "1" [] d = 2 -> "2" [] d = 3 -> "3"
      [] d = 4 -> "4" [] d = 5 -> "5" [] d = 6 -> "6" [] d = 7 -> "7"
      [] d = 8 -> "8" [] d = 9 -> "9"

RECURSIVE Digits(_)
Digits(n) == IF n < 10 THEN Digit(n) ELSE Digits(n \div 10) \o Digit(n % 10)

to_string(n) == IF n < 0 THEN "-" \o Digits(0 - n) ELSE Digits(n)

\* the key of a group in finalOutput
GroupKey(gid) == IF gid = 0 THEN "Unassigned" ELSE "Grain_" \o to_string(gid)

AtomDataOneBased(fr, i) ==
    [id |-> i + 1,
     pos |-> IF i < Len(fr.positions) THEN fr.positions[i + 1] ELSE 0]

\* atomData of atom i (0-based): its index and its position, zero when
\* the frame has no position for it
AtomData(fr, i) ==
    [id |-> i,
     pos |-> IF i < Len(fr.positions) THEN fr.positions[i + 1] ELSE 0]

\* the loop filling std::map<int, json> grainGroups, from atom i on
RECURSIVE GroupAtoms(_, _, _, _)
GroupAtoms(fr, ids, i, grainGroups) ==
    IF i >= fr.natoms THEN grainGroups
    ELSE LET gid == ids[i + 1]
             found == [g \in DOMAIN grainGroups \cup {gid} |->
                          IF g \in DOMAIN grainGroups THEN grainGroups[g] ELSE <<>>]
         IN  GroupAtoms(fr, ids, i + 1,
                        [found EXCEPT ![gid] = Append(@, AtomData(fr, i))])

\* finalOutput: one member per group of grainGroups, under the group's key
FinalOutput(fr, ids) ==
    LET grainGroups == GroupAtoms(fr, ids, 0, <<>>)
        keys == {GroupKey(gid) : gid \in DOMAIN grainGroups}
    IN  [key \in keys |->
            grainGroups[CHOOSE gid \in DOMAIN grainGroups : GroupKey(gid) = key]]

\* fs with document doc stored under path
WriteFile(fs, path, doc) ==
    [p \in DOMAIN fs \cup {path} |-> IF p = path THEN doc ELSE fs[p]]

AtomsExportFatal(how) ==
    IF how = "raised"
    THEN Catch([kind |-> "std", what |-> "export"])
    ELSE /\ pc' = "exportMeta"
         /\ UNCHANGED <<result, outcome, raised>>

\* the end of the inner try block, its `catch(...)` included: whatever
\* happened, control reaches the metadata write
AtomsExportEnds(how) ==
    /\ pc' = "exportMeta"
    /\ UNCHANGED <<result, outcome, raised>>

\* the inner try block: the listing is built and written to
\* msgpackPath + ".json"; `catch(...)` swallows whatever is raised there
ExportAtoms(how) ==
    /\ pc = "exportAtoms"
    /\ log' = Append(log, "atomsFile")
    /\ CASE how = "written" ->
              /\ finalOutput' = FinalOutput(frame, grainIds)
              /\ files' = WriteFile(files, msgpackPath \o ".json",
                                    FinalOutput(frame, grainIds))
         [] how = "notOpen" ->
              /\ finalOutput' = FinalOutput(frame, grainIds)
              /\ UNCHANGED files
         [] how = "raised" ->
              UNCHANGED <<finalOutput, files>>
    /\ AtomsExportEnds(how)
    /\ UNCHANGED <<config, frame, outputFilename, ptmOrientation,
                   correspondencesCode, engine1, engine2, grainIds,
                   idArgs, stage1Args, stage2Args>>

\* the metadata document is written to metaPath + ".json" and result returned
ExportMeta(how) ==
    /\ pc = "exportMeta"
    /\ log' = Append(log, "metaFile")
    /\ files' = IF how = "written"
                THEN WriteFile(files, metaPath \o ".json", result)
                ELSE files
    /\ Return(result)
    /\ UNCHANGED <<config, frame, outputFilename, ptmOrientation,
                   correspondencesCode, engine1, engine2, grainIds, finalOutput,
                   idArgs, stage1Args, stage2Args>>

\* the caller has the result, or has caught what was thrown; the locals of
\* the call are gone
Leave ==
    /\ pc = "done"
    /\ pc' = "idle"
    /\ frame' = NoFrame
    /\ outputFilename' = ""
    /\ ptmOrientation' = FALSE
    /\ correspondencesCode' = FALSE
    /\ engine1' = NoCall
    /\ engine2' = NoCall
    /\ grainIds' = <<>>
    /\ result' = NoResult
    /\ finalOutput' = <<>>
    /\ files' = <<>>
    /\ log' = <<>>
    /\ idArgs' = NoCall
    /\ stage1Args' = NoCall
    /\ stage2Args' = NoCall
    /\ outcome' = "none"
    /\ raised' = NoRaise
    /\ UNCHANGED config

Next ==
    \/ \E mode \in Modes : SetIdentificationMode(mode)
    \/ \E r \in RMSDs : SetRMSD(r)
    \/ \E args \in ParameterLists :
            SetParameters(args[1], args[2], args[3], args[4])
    \/ \E f \in Frames, out \in Prefixes : Compute(f, out)
    \/ \E created \in BOOLEAN, e \in Raisable \cup {NoRaise} :
            CreatePositionProperty(created, e)
    \/ \E orient \in BOOLEAN, corr \in BOOLEAN, e \in Raisable \cup {NoRaise} :
            IdentifyStructures(orient, corr, e)
    \/ CheckOutputFilename
    \/ PerformGrainSegmentation
    \/ \E e \in Raisable \cup {NoRaise} : CopyBuffers(e)
    \/ \E threshold \in Thresholds, e \in Raisable \cup {NoRaise} :
            Engine1Perform(threshold, e)
    \/ \E clusters \in SeqsUpTo(0..MaxGrainId, MaxAtoms),
          e \in Raisable \cup {NoRaise} :
            Engine2Perform(clusters, e)
    \/ \E e \in Raisable \cup {NoRaise} : ReadBack(e)
    \/ \E how \in {"written", "notOpen", "raised"} : ExportAtoms(how)
    \/ \E how \in {"written", "notOpen"} : ExportMeta(how)
    \/ Leave

Spec == Init /\ [][Next]_vars

(* ======================== properties =================================== *)
InLog(ev) == \E i \in DOMAIN log : log[i] = ev
NoFileWritten == DOMAIN files = {}
InCall == pc # "idle"
Ended == pc = "done"
FailureShaped(r) == DOMAIN r = {"success", "error"} /\ r.success = FALSE
SuccessShaped(r) ==
    /\ DOMAIN r = {"success", "grain_count", "merging_threshold", "grains"}
    /\ r.success = TRUE

TypeOK ==
    /\ _identificationMode \in Modes
    /\ _rmsd \in RMSDs
    /\ _minGrainAtomCount \in MinGrainAtomCounts
    /\ pc \in {"idle", "createPositionProperty", "identifyStructures",
               "checkOutputFilename", "performGrainSegmentation", "copyBuffers",
               "engine1", "engine2", "readBack", "exportAtoms", "exportMeta",
               "done"}
    /\ outcome \in {"none", "returned", "thrown"}
    /\ (outcome # "none") = (pc = "done")

\* C1: every call of compute ends by returning a result value, a failure
\* being a failure-shaped one; nothing a collaborator raises reaches the
\* caller.
C1_NoExceptionEscapes ==
    Ended => /\ outcome = "returned"
             /\ (FailureShaped(result) \/ SuccessShaped(result))
             /\ (raised # NoRaise => FailureShaped(result))

\* C2: a call with natoms <= 0 returns failure("Invalid number of atoms")
\* at once: no collaborator is invoked and no file is written.
C2_InvalidAtomCount ==
    (InCall /\ frame.natoms <= 0) =>
        /\ Ended
        /\ outcome = "returned"
        /\ result = AnalysisFailure("Invalid number of atoms")
        /\ NoFileWritten
        /\ log = <<>>
        /\ ~idArgs.called /\ ~stage1Args.called /\ ~stage2Args.called

C2_Witness ==
    /\ Ended
    /\ frame.natoms = 0
    /\ outputFilename # ""
    /\ result = AnalysisFailure("Invalid number of atoms")

\* C3: a call with natoms > 0 and an empty output name returns a failure
\* result and writes no file; identification has run when the name is
\* checked, and neither stage 1 nor stage 2 is invoked.
C3_EmptyPrefixFails ==
    /\ (pc = "checkOutputFilename" => InLog("identifyStructures.ret"))
    /\ (InCall /\ frame.natoms > 0 /\ outputFilename = "") =>
          /\ NoFileWritten
          /\ ~InLog("engine1") /\ ~InLog("engine2")
          /\ Ended => outcome = "returned" /\ FailureShaped(result)

\* C4: stage 1 is invoked only with both the orientation and the
\* correspondence-code buffer in the context; with either one absent after
\* identification, a call with an output name returns
\* failure("Grain segmentation requires PTM mode with orientation output
\* enabled."), invokes neither stage and writes no file.
C4_OrientationRequired ==
    /\ (InLog("engine1") => ptmOrientation /\ correspondencesCode)
    /\ (InLog("engine2") => ptmOrientation /\ correspondencesCode)
    /\ (/\ Ended
        /\ InLog("identifyStructures.ret")
        /\ outputFilename # ""
        /\ ~(ptmOrientation /\ correspondencesCode))
       => /\ outcome = "returned"
          /\ result = AnalysisFailure(
               "Grain segmentation requires PTM mode with orientation output enabled.")
          /\ ~InLog("engine1") /\ ~InLog("engine2")
          /\ NoFileWritten

C4_Witness ==
    /\ Ended
    /\ InLog("performGrainSegmentation")
    /\ outputFilename # ""
    /\ ptmOrientation /\ ~correspondencesCode
    /\ _identificationMode = "PTM"
    /\ FailureShaped(result)

SameValue(s, v) == v >= 0 /\ s = <<v % (2^16), v \div (2^16), 0, 0>>

\* C6: each call hands the collaborators the configuration as last set
\* (the defaults when never set): mode and RMSD to identification, the
\* coherent-interface and bond switches to stage 1, the orphan switch and
\* the minimum grain atom count to stage 2 with the single-cut flag set; a
\* setter changes only its own fields and compute changes none.
C6_ConfigurationPassedThrough ==
    InCall =>
        /\ idArgs.called =>
              idArgs.mode = _identificationMode /\ idArgs.rmsd = _rmsd
        /\ stage1Args.called =>
              /\ stage1Args.handleCoherentInterfaces = _handleCoherentInterfaces
              /\ stage1Args.outputBonds = _outputBonds
        /\ stage2Args.called =>
              /\ stage2Args.adoptOrphanAtoms = _adoptOrphanAtoms
              /\ SameValue(stage2Args.minGrainAtomCount, _minGrainAtomCount)
              /\ stage2Args.stopOnThreshold = TRUE

\* the part of C6 a negative minimum does not touch: everything but the
\* value of the minimum grain atom count
C6_OtherValuesPassedThrough ==
    InCall =>
        /\ idArgs.called =>
              idArgs.mode = _identificationMode /\ idArgs.rmsd = _rmsd
        /\ stage1Args.called =>
              /\ stage1Args.handleCoherentInterfaces = _handleCoherentInterfaces
              /\ stage1Args.outputBonds = _outputBonds
        /\ stage2Args.called =>
              /\ stage2Args.adoptOrphanAtoms = _adoptOrphanAtoms
              /\ (_minGrainAtomCount >= 0 =>
                    SameValue(stage2Args.minGrainAtomCount, _minGrainAtomCount))
              /\ stage2Args.stopOnThreshold = TRUE

\* the setters are independent and compute changes no configuration value
C6_SettersIndependent ==
    [][/\ (<<_rmsd, _identificationMode>>' # <<_rmsd, _identificationMode>> =>
              UNCHANGED <<_adoptOrphanAtoms, _minGrainAtomCount,
                          _handleCoherentInterfaces, _outputBonds>>)
       /\ (InCall => UNCHANGED config)]_vars

\* the events of one call, in the order of the code
StageOrder ==
    <<"createPositionProperty", "identifyStructures", "identifyStructures.ret",
      "warn", "performGrainSegmentation", "copyBuffers", "engine1",
      "engine1.ret", "engine2", "engine2.ret", "readBack", "assembled",
      "atomsFile", "metaFile">>
Rank(ev) == CHOOSE k \in DOMAIN StageOrder : StageOrder[k] = ev

\* C7: within a call the stages run forward, each at most once:
\* identification returns before stage 1 starts, stage 1 before stage 2,
\* stage 2 before the result is assembled and before any file is written,
\* the atom-listing write comes before the metadata write.
C7_StagesRunForward ==
    /\ \A i, j \in DOMAIN log : i < j => Rank(log[i]) < Rank(log[j])
    /\ \A i \in DOMAIN log : \E k \in DOMAIN StageOrder : StageOrder[k] = log[i]
    /\ InLog("engine1") => InLog("identifyStructures.ret")
    /\ InLog("engine2") => InLog("engine1.ret")
    /\ InLog("assembled") => InLog("engine2.ret")
    /\ InLog("atomsFile") => InLog("assembled")
    /\ InLog("metaFile") => InLog("atomsFile")
    /\ ~NoFileWritten => InLog("engine2.ret")
    /\ (metaPath \o ".json") \in DOMAIN files => InLog("atomsFile")

C7_Witness ==
    /\ Ended
    /\ log = StageOrder
    /\ DOMAIN files = {msgpackPath \o ".json", metaPath \o ".json"}

\* the group label the atom listing is to use for a grain id
Label(gid) == IF gid = 0 THEN "Unassigned" ELSE "Grain_" \o ToString(gid)

\* C8: the atom listing built from the grain ids of stage 2 is a total
\* partition of the atoms 0..n-1: each atom is in exactly one group, the
\* one labelled "Unassigned" for grain id 0 and "Grain_<id>" otherwise;
\* only labels of ids in the buffer occur; each group is in increasing
\* atom index order.
C8_ListingIsPartition ==
    DOMAIN finalOutput # {} =>
        LET n == frame.natoms
            places == {<<key, k>> : key \in DOMAIN finalOutput, k \in 1..n}
            held == {pl \in places : pl[2] \in DOMAIN finalOutput[pl[1]]}
        IN  /\ Len(grainIds) = n
            /\ \A a \in 0..(n - 1) :
                  /\ Cardinality({pl \in held :
                                     finalOutput[pl[1]][pl[2]].id = a}) = 1
                  /\ \E k \in DOMAIN finalOutput[Label(grainIds[a + 1])] :
                        finalOutput[Label(grainIds[a + 1])][k].id = a
            /\ \A key \in DOMAIN finalOutput :
                  /\ Len(finalOutput[key]) \in 1..n
                  /\ \E a \in 1..n : key = Label(grainIds[a])
                  /\ \A k \in DOMAIN finalOutput[key] :
                        finalOutput[key][k].id \in 0..(n - 1)
                  /\ \A k, m \in DOMAIN finalOutput[key] :
                        k < m => finalOutput[key][k].id < finalOutput[key][m].id

C8_Witness ==
    /\ frame.natoms = 2
    /\ grainIds = <<2, 0>>
    /\ DOMAIN finalOutput = {"Unassigned", "Grain_2"}
    /\ finalOutput["Grain_2"][1].id = 0

\* C9 as stated: the diagnostic is emitted exactly when the mode is not PTM.
C9_DiagnosticWhenNotPTM ==
    (InCall /\ outputFilename # "" /\ InLog("performGrainSegmentation")) =>
        (InLog("warn") <=> _identificationMode # "PTM")

\* C9, amended: in a call with natoms > 0 and an output name, the
\* diagnostic is emitted exactly when the configured mode is PTM and the
\* call has got past identification; whatever the mode, such a call then
\* enters the segmentation procedure.
C9_DiagnosticInPTM ==
    LET pastCheck == InLog("identifyStructures.ret") /\ pc # "checkOutputFilename"
    IN  /\ InLog("warn") <=>
              (pastCheck /\ outputFilename # "" /\ _identificationMode = "PTM")
        /\ (pastCheck /\ outputFilename # "" /\ pc # "performGrainSegmentation")
              => InLog("performGrainSegmentation")
        /\ InLog("performGrainSegmentation") => frame.natoms > 0

C9_Witness ==
    /\ _identificationMode = "PTM"
    /\ InLog("warn")
    /\ InLog("performGrainSegmentation")
    /\ outputFilename # ""

\* C10: whatever is raised while the buffers are copied, stage 1 or stage 2
\* runs or the grains are read back, performGrainSegmentation returns a
\* failure result carrying the message of what was raised.
C10_NothingRaisedPast ==
    (Ended /\ InLog("copyBuffers") /\ raised # NoRaise) =>
        /\ outcome = "returned"
        /\ result = AnalysisFailure("Grain segmentation failed: " \o raised.what)

\* what is raised there and derives from std::exception is converted
C10_StdExceptionConverted ==
    (Ended /\ InLog("copyBuffers") /\ raised.kind = "std") =>
        /\ outcome = "returned"
        /\ result = AnalysisFailure("Grain segmentation failed: " \o raised.what)

====
